---- MODULE Spec2Model ----
(***************************************************************************)
(* Model of the question generator of pandas-practice:                     *)
(*   generator/generate_question_bank.py  ("bank", pass 1)                 *)
(*   generator/generate_questions_v2.py   ("v2",   pass 1, second version) *)
(*   generator/review_questions.py        ("review", pass 2)               *)
(* A table is a sequence of columns; a column has a name, a dtype and a    *)
(* sequence of cells; a cell is <<>> (missing) or <<v>>.  Strings are the  *)
(* strings of the program, so substring tests and slicing are computed.    *)
(***************************************************************************)
EXTENDS Integers, Sequences, FiniteSets, TLC

VARIABLES
    prog,               \* which driver runs: "bank", "v2" or "review"
    pc,                 \* position of main: "datasets", "evaluate", "save", "done", "crashed"
    fs,                 \* the datasets directory: file name -> content
    i,                  \* index of the next dataset of main's dataset loop
    all_questions,      \* main's all_questions (bank, v2)
    rng,                \* state of the random module's generator
    raw_questions,      \* review: data['questions'] of question_bank_raw.json
    datasets,           \* review: the loaded datasets, name -> table
    k,                  \* review: index of the next raw question
    good_questions,     \* review: accepted questions (final format)
    rejected_questions, \* review: list of pairs (question, reasons)
    output,             \* the written output file: <<>> before, <<document>> after
    run,                \* number of the run of the program (1 or 2)
    first_output,       \* the output of run 1, kept to compare run 2 with
    seed                \* the state the random generator starts each run in

vars == <<prog, pc, fs, i, all_questions, rng, raw_questions, datasets, k,
          good_questions, rejected_questions, output, run, first_output, seed>>

-----------------------------------------------------------------------------
(* Bounds of the model *)

\* rows of a generated table
MaxRows == 3
\* entries of main's dataset list that are modelled
MaxDatasets == 2
\* initial states of the random generator: 0..MaxSeed
MaxSeed == 1
\* raw questions of a review run over several datasets
MaxRaw == 2

-----------------------------------------------------------------------------
(* Python and pandas primitives *)

Min(a, b) == IF a < b THEN a ELSE b

Range(s) == {s[j] : j \in 1..Len(s)}

\* str.lower(), for the letters that occur in the names of the model
LowerChar(c) ==
    CASE c = "I" -> "i" [] c = "D" -> "d" [] c = "N" -> "n" [] c = "U" -> "u"
      [] c = "M" -> "m" [] c = "B" -> "b" [] c = "E" -> "e" [] c = "R" -> "r"
      [] c = "S" -> "s" [] c = "Z" -> "z" [] c = "P" -> "p" [] c = "C" -> "c"
      [] c = "O" -> "o" [] c = "W" -> "w" [] c = "H" -> "h" [] c = "F" -> "f"
      [] c = "T" -> "t" [] c = "A" -> "a" [] c = "G" -> "g" [] c = "L" -> "l"
      [] OTHER -> c

RECURSIVE Lower(_)
Lower(s) == IF s = "" THEN "" ELSE LowerChar(Head(s)) \o Lower(Tail(s))

\* sub in s
Contains(sub, s) ==
    \E j \in 1..(Len(s) - Len(sub) + 1) : SubSeq(s, j, j + Len(sub) - 1) = sub

\* s[:n]
Prefix(s, n) == SubSeq(s, 1, Min(n, Len(s)))

\* str(n) of a natural number
RECURSIVE NatStr(_)
NatStr(n) ==
    LET d == n % 10
        c == CASE d = 0 -> "0" [] d = 1 -> "1" [] d = 2 -> "2" [] d = 3 -> "3"
               [] d = 4 -> "4" [] d = 5 -> "5" [] d = 6 -> "6" [] d = 7 -> "7"
               [] d = 8 -> "8" [] OTHER -> "9"
    IN  IF n < 10 THEN c ELSE NatStr(n \div 10) \o c

-----------------------------------------------------------------------------
(* Tables (pandas DataFrame as read by pd.read_csv) *)

Missing == <<>>

IsNull(cell) == cell = Missing

\* df.columns
Columns(df) == [j \in 1..Len(df.cols) |-> df.cols[j].name]

HasColumn(df, col) == \E j \in 1..Len(df.cols) : df.cols[j].name = col

\* df[col]
Col(df, col) == df.cols[CHOOSE j \in 1..Len(df.cols) : df.cols[j].name = col]

\* len(df)
NRows(df) == df.nrows

\* pd.api.types.is_numeric_dtype(df[col])
is_numeric_dtype(column) == column.dtype \in {"int64", "float64"}

\* df[col].dropna().tolist()
DropNa(vals) ==
    LET present == SelectSeq(vals, LAMBDA c : ~IsNull(c))
    IN  [j \in 1..Len(present) |-> present[j][1]]

\* the distinct values of a list, in order of first appearance
RECURSIVE Distinct(_)
Distinct(s) ==
    IF s = <<>> THEN <<>>
    ELSE LET r == Distinct(SubSeq(s, 1, Len(s) - 1))
             x == s[Len(s)]
         IN  IF x \in Range(r) THEN r ELSE Append(r, x)

\* df[col].nunique(): distinct non-missing values
NUnique(vals) == Len(Distinct(DropNa(vals)))

\* df[col].isnull().sum()
NullCount(vals) == Cardinality({j \in 1..Len(vals) : IsNull(vals[j])})

\* number of cells holding v
CountOf(vals, v) == Cardinality({j \in 1..Len(vals) : vals[j] = <<v>>})

\* df[col].dropna().head(n).tolist()
SampleValues(vals, n) == SubSeq(DropNa(vals), 1, Min(n, Len(DropNa(vals))))

-----------------------------------------------------------------------------
(* Column Profiler *)

\* analysis.get(req, False)
Get(analysis, req) == IF req \in DOMAIN analysis THEN analysis[req] ELSE FALSE

\* unique_ratio > 0.9, unique_ratio < 0.5, unique_ratio > 0.5 on the quotient
\* unique_count / total_rows (total_rows > 0)
\* the threshold test of the identifier check taken as "more unique values than rows"
RatioAbove09_Never(u, n) == u > n
RatioAbove09(u, n) == 10 * u > 9 * n
\* the group-by threshold with a ratio of exactly 0.5 let through
RatioBelow05_Inclusive(u, n) == 2 * u <= n
\* the group-by threshold taken as that of identifiers, 0.9
RatioBelow05_As09(u, n) == 10 * u < 9 * n
RatioBelow05(u, n) == 2 * u < n
\* the high-cardinality threshold of the review taken as 0.9
RatioAbove05_As09(u, n) == 10 * u > 9 * n
RatioAbove05(u, n) == 2 * u > n

\* 'id' in col.lower() or 'number' in col.lower()
NamedLikeId(col) == Contains("id", Lower(col)) \/ Contains("number", Lower(col))

\* analyze_column raises ZeroDivisionError on a table without rows
analyze_column_raises(df) == NRows(df) = 0

\* generate_question_bank.py: analyze_column
analyze_column_bank(df, col) ==
    LET c == Col(df, col)
        u == NUnique(c.vals)
        base == [name |-> col, dtype |-> c.dtype, unique_count |-> u,
                 null_count |-> NullCount(c.vals),
                 sample_values |-> SampleValues(c.vals, 5)]
    IN  IF is_numeric_dtype(c)
        THEN IF RatioAbove09(u, NRows(df)) \/ NamedLikeId(col)
             THEN base @@ [is_numeric |-> TRUE, can_sum |-> FALSE, can_mean |-> FALSE,
                           can_rank |-> TRUE, is_identifier |-> TRUE]
             ELSE base @@ [is_numeric |-> TRUE, can_sum |-> TRUE, can_mean |-> TRUE,
                           can_rank |-> TRUE]
        ELSE base @@ [is_numeric |-> FALSE, is_categorical |-> TRUE,
                      can_group_by |-> RatioBelow05(u, NRows(df)),
                      can_value_count |-> TRUE]

\* generate_questions_v2.py: analyze_column
analyze_column_v2(df, col) ==
    LET c == Col(df, col)
        u == NUnique(c.vals)
        base == [name |-> col, dtype |-> c.dtype, unique_count |-> u,
                 null_count |-> NullCount(c.vals),
                 sample_values |-> SampleValues(c.vals, 10)]
    IN  IF is_numeric_dtype(c)
        THEN IF RatioAbove09(u, NRows(df)) \/ NamedLikeId(col)
             THEN base @@ [is_numeric |-> TRUE, can_sum |-> FALSE, can_mean |-> FALSE,
                           can_sort |-> TRUE, is_identifier |-> TRUE]
             ELSE base @@ [is_numeric |-> TRUE, can_sum |-> TRUE, can_mean |-> TRUE,
                           can_sort |-> TRUE]
        ELSE base @@ [is_numeric |-> FALSE, is_categorical |-> TRUE,
                      can_group_by |-> RatioBelow05(u, NRows(df)),
                      can_value_count |-> TRUE, can_filter |-> TRUE]

-----------------------------------------------------------------------------
(* Template Catalog.  A template string is the sequence of its literal      *)
(* pieces and its {placeholders}; str.format is Format.                     *)

IsPlaceholder(piece) == Len(piece) >= 2 /\ SubSeq(piece, 1, 1) = "{"

\* template.format(**b)
RECURSIVE Format(_, _)
Format(pieces, b) ==
    IF pieces = <<>> THEN ""
    ELSE (IF IsPlaceholder(Head(pieces))
          THEN b[SubSeq(Head(pieces), 2, Len(Head(pieces)) - 1)]
          ELSE Head(pieces)) \o Format(Tail(pieces), b)

\* generate_question_bank.py: generate_question_templates
generate_question_templates_bank == <<
    [id |-> "value_counts_basic", requires |-> <<"can_value_count">>,
     template |-> <<"How many ", "{entity}", "s are there for each ", "{column}", "?">>,
     code_template |-> <<"df['", "{column}", "'].value_counts()">>,
     difficulty |-> 1],
    [id |-> "value_counts_top", requires |-> <<"can_value_count">>,
     template |-> <<"What are the top 5 most common ", "{column}", "s?">>,
     code_template |-> <<"df['", "{column}", "'].value_counts().head(5)">>,
     difficulty |-> 1],
    [id |-> "unique_count", requires |-> <<"is_categorical">>,
     template |-> <<"How many unique ", "{column}", "s are there?">>,
     code_template |-> <<"df['", "{column}", "'].nunique()">>,
     difficulty |-> 1],
    [id |-> "mean_simple", requires |-> <<"can_mean">>,
     template |-> <<"What is the average ", "{column}", "?">>,
     code_template |-> <<"df['", "{column}", "'].mean()">>,
     difficulty |-> 1],
    [id |-> "sum_simple", requires |-> <<"can_sum">>,
     template |-> <<"What is the total ", "{column}", " across all ", "{entity}", "s?">>,
     code_template |-> <<"df['", "{column}", "'].sum()">>,
     difficulty |-> 1],
    [id |-> "max_value", requires |-> <<"can_rank">>,
     template |-> <<"What is the maximum ", "{column}", "?">>,
     code_template |-> <<"df['", "{column}", "'].max()">>,
     difficulty |-> 1],
    [id |-> "nlargest", requires |-> <<"can_rank">>,
     template |-> <<"Find the top 5 ", "{entity}", "s by ", "{column}">>,
     code_template |-> <<"df.nlargest(5, '", "{column}", "')">>,
     difficulty |-> 1],
    [id |-> "groupby_count", requires |-> <<"can_group_by">>,
     requires_other |-> <<"any">>,
     template |-> <<"How many ", "{entity}", "s does each ", "{column}", " have?">>,
     code_template |-> <<"df.groupby('", "{column}", "').size()">>,
     difficulty |-> 2],
    [id |-> "groupby_mean", requires |-> <<"can_group_by">>,
     requires_other |-> <<"can_mean">>,
     template |-> <<"What is the average ", "{other_column}", " for each ", "{column}", "?">>,
     code_template |-> <<"df.groupby('", "{column}", "')['", "{other_column}", "'].mean()">>,
     difficulty |-> 2],
    [id |-> "groupby_sum", requires |-> <<"can_group_by">>,
     requires_other |-> <<"can_sum">>,
     template |-> <<"What is the total ", "{other_column}", " for each ", "{column}", "?">>,
     code_template |-> <<"df.groupby('", "{column}", "')['", "{other_column}", "'].sum()">>,
     difficulty |-> 2],
    [id |-> "groupby_max_category", requires |-> <<"can_group_by">>,
     requires_other |-> <<"can_sum">>,
     template |-> <<"Which ", "{column}", " has the highest total ", "{other_column}", "?">>,
     code_template |-> <<"df.groupby('", "{column}", "')['", "{other_column}", "'].sum().idxmax()">>,
     difficulty |-> 2],
    [id |-> "filter_equals", requires |-> <<"is_categorical">>,
     template |-> <<"How many ", "{entity}", "s have ", "{column}", " equal to \"", "{value}", "\"?">>,
     code_template |-> <<"len(df[df['", "{column}", "'] == '", "{value}", "'])">>,
     difficulty |-> 1, needs_value |-> TRUE],
    [id |-> "filter_greater", requires |-> <<"is_numeric">>,
     template |-> <<"How many ", "{entity}", "s have ", "{column}", " greater than ", "{value}", "?">>,
     code_template |-> <<"len(df[df['", "{column}", "'] > ", "{value}", "])">>,
     difficulty |-> 1, needs_value |-> TRUE],
    [id |-> "string_contains", requires |-> <<"is_categorical">>,
     template |-> <<"Find all ", "{entity}", "s where ", "{column}", " contains \"", "{substring}", "\"">>,
     code_template |-> <<"df[df['", "{column}", "'].str.contains('", "{substring}", "', na=False)]">>,
     difficulty |-> 2, needs_substring |-> TRUE] >>

\* generate_questions_v2.py: generate_question_templates
generate_question_templates_v2 == <<
    [id |-> "filter_show_all", requires |-> <<"can_filter">>,
     template |-> <<"Show all ", "{entity}", "s where ", "{column}", " is \"", "{value}", "\"">>,
     code_template |-> <<"df[df['", "{column}", "'] == '", "{value}", "']">>,
     difficulty |-> 1, needs_value |-> TRUE, concepts |-> <<"filtering">>],
    [id |-> "filter_show_all_simple", requires |-> <<"can_filter">>,
     template |-> <<"Show all ", "{value}", " ", "{entity}", "s">>,
     code_template |-> <<"df[df['", "{column}", "'] == '", "{value}", "']">>,
     difficulty |-> 1, needs_value |-> TRUE, concepts |-> <<"filtering">>,
     use_value_in_question |-> TRUE],
    [id |-> "filter_count", requires |-> <<"can_filter">>,
     template |-> <<"How many ", "{entity}", "s have ", "{column}", " equal to \"", "{value}", "\"?">>,
     code_template |-> <<"(df['", "{column}", "'] == '", "{value}", "').sum()">>,
     difficulty |-> 1, needs_value |-> TRUE, concepts |-> <<"boolean indexing", "sum">>],
    [id |-> "filter_numeric_greater", requires |-> <<"is_numeric">>,
     template |-> <<"How many ", "{entity}", "s have ", "{column}", " greater than ", "{value}", "?">>,
     code_template |-> <<"(df['", "{column}", "'] > ", "{value}", ").sum()">>,
     difficulty |-> 1, needs_numeric_value |-> TRUE, concepts |-> <<"boolean indexing", "sum">>],
    [id |-> "sort_highest", requires |-> <<"can_sort">>,
     template |-> <<"Which ", "{entity}", " has the highest ", "{column}", "?">>,
     code_template |-> <<"df.sort_values('", "{column}", "', ascending=False).head(1)">>,
     difficulty |-> 1, concepts |-> <<"sort_values", "head">>],
    [id |-> "sort_lowest", requires |-> <<"can_sort">>,
     template |-> <<"What is the ", "{entity}", " with the lowest ", "{column}", "?">>,
     code_template |-> <<"df.sort_values('", "{column}", "').head(1)">>,
     difficulty |-> 1, concepts |-> <<"sort_values", "head">>],
    [id |-> "sort_top_5", requires |-> <<"can_sort">>,
     template |-> <<"Show the 5 ", "{entity}", "s with the highest ", "{column}">>,
     code_template |-> <<"df.sort_values('", "{column}", "', ascending=False).head(5)">>,
     difficulty |-> 1, concepts |-> <<"sort_values", "head">>],
    [id |-> "value_counts_percentage", requires |-> <<"can_value_count">>,
     template |-> <<"What percentage of ", "{entity}", "s are in each ", "{column}", " category?">>,
     code_template |-> <<"df['", "{column}", "'].value_counts(normalize=True)">>,
     difficulty |-> 1, concepts |-> <<"value_counts", "normalize">>],
    [id |-> "value_counts_basic", requires |-> <<"can_value_count">>,
     template |-> <<"How many ", "{entity}", "s are there for each ", "{column}", "?">>,
     code_template |-> <<"df['", "{column}", "'].value_counts()">>,
     difficulty |-> 1, concepts |-> <<"value_counts">>],
    [id |-> "value_counts_most_common", requires |-> <<"can_value_count">>,
     template |-> <<"What is the most common ", "{column}", "?">>,
     code_template |-> <<"df['", "{column}", "'].value_counts().head(1)">>,
     difficulty |-> 1, concepts |-> <<"value_counts", "head">>],
    [id |-> "mean_simple", requires |-> <<"can_mean">>,
     template |-> <<"What is the average ", "{column}", "?">>,
     code_template |-> <<"df['", "{column}", "'].mean()">>,
     difficulty |-> 1, concepts |-> <<"mean">>],
    [id |-> "sum_simple", requires |-> <<"can_sum">>,
     template |-> <<"What is the total ", "{column}", " across all ", "{entity}", "s?">>,
     code_template |-> <<"df['", "{column}", "'].sum()">>,
     difficulty |-> 1, concepts |-> <<"sum">>],
    [id |-> "count_multiple_values", requires |-> <<"can_filter">>,
     template |-> <<"How many ", "{entity}", "s are either ", "{value1}", " or ", "{value2}", "?">>,
     code_template |-> <<"df['", "{column}", "'].isin(['", "{value1}", "', '", "{value2}", "']).sum()">>,
     difficulty |-> 2, needs_two_values |-> TRUE, concepts |-> <<"isin", "sum">>],
    [id |-> "groupby_count", requires |-> <<"can_group_by">>,
     template |-> <<"How many ", "{entity}", "s does each ", "{column}", " have?">>,
     code_template |-> <<"df.groupby('", "{column}", "').size()">>,
     difficulty |-> 2, concepts |-> <<"groupby", "size">>],
    [id |-> "groupby_mean", requires |-> <<"can_group_by">>,
     requires_other |-> <<"can_mean">>,
     template |-> <<"What is the average ", "{other_column}", " by ", "{column}", "?">>,
     code_template |-> <<"df.groupby('", "{column}", "')['", "{other_column}", "'].mean()">>,
     difficulty |-> 2, concepts |-> <<"groupby", "mean">>],
    [id |-> "groupby_sum_sorted", requires |-> <<"can_group_by">>,
     requires_other |-> <<"can_sum">>,
     template |-> <<"What is the total ", "{other_column}", " by ", "{column}", "?">>,
     code_template |-> <<"df.groupby('", "{column}", "')['", "{other_column}", "'].sum().sort_values(ascending=False)">>,
     difficulty |-> 2, concepts |-> <<"groupby", "sum", "sort_values">>] >>

-----------------------------------------------------------------------------
(* Query execution: eval(code) with df bound to the table.  A result is    *)
(* [kind, len, text]: kind "scalar", "series" (pd.Series), "frame"         *)
(* (pd.DataFrame) or "error" (eval raised; text is the message), len is    *)
(* len(result) for a series or a frame, text is str(result).               *)

\* ord(c), for the characters of the names and values of the model
Alphabet == " '.0123456789ABCDEFGHIJKLMNOPQRSTUVWXYZ_abcdefghijklmnopqrstuvwxyz"

Ord(c) == CHOOSE j \in 1..Len(Alphabet) : SubSeq(Alphabet, j, j) = c

\* a < b on str
RECURSIVE StrLess(_, _)
StrLess(a, b) ==
    IF b = "" THEN FALSE
    ELSE IF a = "" THEN TRUE
    ELSE IF Head(a) = Head(b) THEN StrLess(Tail(a), Tail(b))
    ELSE Ord(Head(a)) < Ord(Head(b))

\* a < b on the values of a column of the given dtype
LessVal(dtype, a, b) == IF dtype = "object" THEN StrLess(a, b) ELSE a < b

\* sorted(s), stable, by the strict order Before: the element at j goes
\* after the elements before it in the order, and after its equals to its left
SortBy(s, Before(_, _)) ==
    LET rank(j) == 1 + Cardinality({h \in 1..Len(s) :
                        \/ Before(s[h], s[j])
                        \/ (~Before(s[j], s[h]) /\ h < j)})
    IN  [r \in 1..Len(s) |-> s[CHOOSE j \in 1..Len(s) : rank(j) = r]]

RECURSIVE SumSeq(_)
SumSeq(s) == IF s = <<>> THEN 0 ELSE Head(s) + SumSeq(Tail(s))

RECURSIVE Concat(_)
Concat(s) == IF s = <<>> THEN "" ELSE Head(s) \o Concat(Tail(s))

\* the first greatest element of a non-empty list
MaxBy(s, Before(_, _)) ==
    s[CHOOSE j \in 1..Len(s) :
        /\ \A h \in 1..Len(s) : ~Before(s[j], s[h])
        /\ \A h \in 1..(j - 1) : Before(s[h], s[j])]

\* the decimals of r/d (0 <= r < d), at most n of them, the last one rounded
RECURSIVE Decimals(_, _, _)
Decimals(r, d, n) ==
    IF r = 0 THEN ""
    ELSE LET q == (10 * r) \div d
             rest == (10 * r) % d
         IN  IF n = 1 THEN NatStr(IF 2 * rest >= d /\ q < 9 THEN q + 1 ELSE q)
             ELSE NatStr(q) \o Decimals(rest, d, n - 1)

\* str(x) of the float x = n/d (n >= 0, d > 0)
FloatStr(n, d) ==
    NatStr(n \div d) \o "." \o (IF n % d = 0 THEN "0" ELSE Decimals(n % d, d, 16))

\* str(v) of a cell value of a column of the given dtype
ValStr(dtype, v) ==
    CASE dtype = "object" -> v
      [] dtype = "int64" -> NatStr(v)
      [] OTHER -> FloatStr(v, 1)

CellStr(dtype, cell) == IF IsNull(cell) THEN "NaN" ELSE ValStr(dtype, cell[1])

\* df[col].value_counts(): the distinct values by falling count, ties in order
\* of first appearance, as pairs <<value, count>>
value_counts(vals) ==
    LET d == Distinct(DropNa(vals))
        pairs == [j \in 1..Len(d) |-> <<d[j], CountOf(vals, d[j])>>]
    IN  SortBy(pairs, LAMBDA a, b : a[2] > b[2])

\* the keys of df.groupby(col): the distinct non-missing values, sorted
GroupKeys(column) ==
    SortBy(Distinct(DropNa(column.vals)), LAMBDA a, b : LessVal(column.dtype, a, b))

\* the cells of column other in the rows where column key holds v
GroupCells(key, other, v) ==
    LET rows == SelectSeq([j \in 1..Len(key.vals) |-> j], LAMBDA j : key.vals[j] = <<v>>)
    IN  [j \in 1..Len(rows) |-> other.vals[rows[j]]]

Scalar(text) == [kind |-> "scalar", len |-> 0, text |-> text]

Raised(message) == [kind |-> "error", len |-> 0, text |-> message]

\* a pd.Series of <<key text, value text>> entries
Series(entries, dtype) ==
    [kind |-> "series", len |-> Len(entries),
     text |-> Concat([j \in 1..Len(entries) |-> entries[j][1] \o "    " \o entries[j][2] \o "\n"])
              \o "dtype: " \o dtype]

\* the pd.DataFrame of the given rows of df, in the given order
Frame(df, rows) ==
    [kind |-> "frame", len |-> Len(rows),
     text |-> Concat([c \in 1..Len(df.cols) |-> "  " \o df.cols[c].name]) \o
              Concat([j \in 1..Len(rows) |->
                  "\n" \o NatStr(rows[j] - 1) \o
                  Concat([c \in 1..Len(df.cols) |->
                      "  " \o CellStr(df.cols[c].dtype, df.cols[c].vals[rows[j]])])])]

RowIndex(df) == [j \in 1..NRows(df) |-> j]

\* df[col].mean()
SeriesMean(cells) ==
    LET pv == DropNa(cells)
    IN  IF pv = <<>> THEN "nan" ELSE FloatStr(SumSeq(pv), Len(pv))

\* df[col].sum() of a numeric column
SeriesSum(dtype, cells) ==
    IF dtype = "int64" THEN NatStr(SumSeq(DropNa(cells))) ELSE FloatStr(SumSeq(DropNa(cells)), 1)

\* a string literal '...' of the code holds text: it is one literal only when
\* text has no quote of its own
StringLiteralOk(text) == ~Contains("'", text)

KeyError(col) == Raised("'" \o col \o "'")

\* eval(code) for the code of template tid bound to column, other_column, the
\* literal text value and the number num2 / 2
eval_code(tid, column, other, value, num2, df) ==
    IF ~HasColumn(df, column) THEN KeyError(column)
    ELSE
    LET c == Col(df, column)
        numeric == is_numeric_dtype(c)
        hasnull == NullCount(c.vals) > 0
        pv == DropNa(c.vals)
        vc == value_counts(c.vals)
        vcEntries == [j \in 1..Len(vc) |-> <<ValStr(c.dtype, vc[j][1]), NatStr(vc[j][2])>>]
        keys == GroupKeys(c)
        o == Col(df, other)
        sums == [j \in 1..Len(keys) |-> SumSeq(DropNa(GroupCells(c, o, keys[j])))]
    IN  CASE tid = "value_counts_basic" -> Series(vcEntries, "int64")
          [] tid = "value_counts_top" -> Series(SubSeq(vcEntries, 1, Min(5, Len(vcEntries))), "int64")
          [] tid = "unique_count" -> Scalar(NatStr(NUnique(c.vals)))
          [] tid = "mean_simple" ->
                IF numeric THEN Scalar(SeriesMean(c.vals))
                ELSE Raised("Could not convert to numeric")
          [] tid = "sum_simple" ->
                IF numeric THEN Scalar(SeriesSum(c.dtype, c.vals))
                ELSE IF hasnull THEN Raised("unsupported operand type(s) for +: 'int' and 'str'")
                ELSE Scalar(IF pv = <<>> THEN "0" ELSE Concat(pv))
          [] tid = "max_value" ->
                IF pv = <<>> THEN Scalar("nan")
                ELSE IF numeric THEN Scalar(ValStr(c.dtype, MaxBy(pv, LAMBDA a, b : a < b)))
                ELSE IF hasnull THEN Raised("'>=' not supported between instances of 'str' and 'float'")
                ELSE Scalar(MaxBy(pv, StrLess))
          [] tid = "nlargest" ->
                IF ~numeric THEN Raised("Column '" \o column \o "' has dtype object, cannot use method 'nlargest' with this dtype")
                ELSE LET present == SelectSeq(RowIndex(df), LAMBDA j : ~IsNull(c.vals[j]))
                         absent == SelectSeq(RowIndex(df), LAMBDA j : IsNull(c.vals[j]))
                         ranked == SortBy(present, LAMBDA a, b : c.vals[a][1] > c.vals[b][1]) \o absent
                     IN  Frame(df, SubSeq(ranked, 1, Min(5, Len(ranked))))
          [] tid = "groupby_count" ->
                Series([j \in 1..Len(keys) |-> <<ValStr(c.dtype, keys[j]), NatStr(CountOf(c.vals, keys[j]))>>], "int64")
          [] tid = "groupby_mean" ->
                IF ~HasColumn(df, other) THEN Raised("'Column not found: " \o other \o "'")
                ELSE IF ~is_numeric_dtype(o) THEN Raised("agg function failed [how->mean,dtype->object]")
                ELSE Series([j \in 1..Len(keys) |->
                        <<ValStr(c.dtype, keys[j]), SeriesMean(GroupCells(c, o, keys[j]))>>], "float64")
          [] tid = "groupby_sum" ->
                IF ~HasColumn(df, other) THEN Raised("'Column not found: " \o other \o "'")
                ELSE IF is_numeric_dtype(o)
                THEN Series([j \in 1..Len(keys) |->
                        <<ValStr(c.dtype, keys[j]), SeriesSum(o.dtype, GroupCells(c, o, keys[j]))>>], o.dtype)
                ELSE IF NullCount(o.vals) > 0 THEN Raised("unsupported operand type(s) for +: 'int' and 'str'")
                ELSE Series([j \in 1..Len(keys) |->
                        <<ValStr(c.dtype, keys[j]), Concat(DropNa(GroupCells(c, o, keys[j])))>>], "object")
          [] tid = "groupby_max_category" ->
                IF ~HasColumn(df, other) THEN Raised("'Column not found: " \o other \o "'")
                ELSE IF ~is_numeric_dtype(o) THEN Raised("reduction operation 'argmax' not allowed for this dtype")
                ELSE IF keys = <<>> THEN Raised("attempt to get argmax of an empty sequence")
                ELSE Scalar(ValStr(c.dtype,
                        keys[MaxBy([j \in 1..Len(keys) |-> j], LAMBDA a, b : sums[a] < sums[b])]))
          [] tid \in {"filter_equals", "filter_count"} ->
                IF ~StringLiteralOk(value) THEN Raised("invalid syntax")
                ELSE Scalar(NatStr(IF numeric THEN 0 ELSE CountOf(c.vals, value)))
          [] tid = "filter_greater" ->
                IF ~numeric /\ pv # <<>> THEN Raised("'>' not supported between instances of 'str' and 'int'")
                ELSE Scalar(NatStr(Cardinality({j \in 1..Len(c.vals) :
                        ~IsNull(c.vals[j]) /\ 2 * c.vals[j][1] > num2})))
          [] tid = "string_contains" ->
                IF ~StringLiteralOk(value) THEN Raised("invalid syntax")
                ELSE IF numeric THEN Raised("Can only use .str accessor with string values!")
                ELSE Frame(df, SelectSeq(RowIndex(df),
                        LAMBDA j : ~IsNull(c.vals[j]) /\ Contains(value, c.vals[j][1])))

-----------------------------------------------------------------------------
(* Question Synthesizer, generate_question_bank.py *)

RECURSIVE FlattenSeq(_)
FlattenSeq(ss) == IF ss = <<>> THEN <<>> ELSE Head(ss) \o FlattenSeq(Tail(ss))

\* dataset_name.replace('.csv', '')
StripCsv(name) ==
    IF Len(name) >= 4 /\ SubSeq(name, Len(name) - 3, Len(name)) = ".csv"
    THEN SubSeq(name, 1, Len(name) - 4) ELSE name

\* s.rstrip('s')
RECURSIVE RStripS(_)
RStripS(s) ==
    IF s # "" /\ SubSeq(s, Len(s), Len(s)) = "s" THEN RStripS(SubSeq(s, 1, Len(s) - 1)) ELSE s

\* entity_type of generate_question_bank.py
entity_type_bank(dataset_name) ==
    CASE dataset_name = "powerplants.csv" -> "power plant"
      [] dataset_name = "motorcycles.csv" -> "motorcycle"
      [] dataset_name = "foods.csv" -> "pet food product"
      [] dataset_name = "grammys.csv" -> "Grammy nomination"
      [] dataset_name = "race-places.csv" -> "race result"
      [] dataset_name = "tickets-tiny.csv" -> "traffic stop"
      [] OTHER -> RStripS(StripCsv(dataset_name))

\* all(analysis.get(req, False) for req in template['requires'])
MeetsRequires(analysis, template) ==
    \A r \in 1..Len(template.requires) : Get(analysis, template.requires[r])

\* any(other_analysis.get(req, False) for req in template['requires_other'])
MeetsRequiresOtherBank(other_analysis, template) ==
    \E r \in 1..Len(template.requires_other) : Get(other_analysis, template.requires_other[r])

\* the try/except around eval: the result string and the status
Executed(res) ==
    IF res.kind = "error"
    THEN [result |-> "Error: " \o res.text, status |-> "error"]
    ELSE [result |-> Prefix(res.text, 200), status |-> "valid"]

\* the question record of one binding b = [other, shown, value, num2] with the
\* outcome ex of its execution; shown is the text put in place of {value} or
\* {substring} in the question, value the text put in their place in the code,
\* num2 / 2 the number that text denotes (value and num2 are part of q['code'],
\* kept beside it for eval); other = "" is a record without 'other_column'
BankRecord(dataset_name, template, col, b, ex) ==
    [dataset |-> dataset_name, template_id |-> template.id, column |-> col,
     other_column |-> b.other, difficulty |-> template.difficulty,
     question |-> Format(template.template,
                    [entity |-> entity_type_bank(dataset_name), column |-> col,
                     other_column |-> b.other, value |-> b.shown, substring |-> b.shown]),
     code |-> Format(template.code_template,
                    [column |-> col, other_column |-> b.other, value |-> b.value,
                     substring |-> b.value]),
     value |-> b.value, num2 |-> b.num2,
     result |-> ex.result, status |-> ex.status]

BankQuestion(df, dataset_name, template, col, b) ==
    BankRecord(dataset_name, template, col, b,
               Executed(eval_code(template.id, col, b.other, b.value, b.num2, df)))

Binding(other, shown, value, num2) ==
    [other |-> other, shown |-> shown, value |-> value, num2 |-> num2]

\* the bindings of one column and one template: none when the template is
\* skipped, one for a single-column template, one for each suitable other column
BankBindings(df, column_analysis, col, template) ==
    LET analysis == column_analysis[col]
        names == Columns(df)
        first == analysis.sample_values[1]
        dtype == Col(df, col).dtype
    IN  IF ~MeetsRequires(analysis, template) THEN <<>>
        ELSE IF "requires_other" \notin DOMAIN template
        THEN IF Get(template, "needs_value")
             THEN IF analysis.sample_values = <<>> THEN <<>>
                  ELSE IF analysis.is_numeric
                  THEN <<Binding("", ValStr(dtype, first), ValStr(dtype, first), 2 * first)>>
                  ELSE <<Binding("", first, "'" \o first \o "'", 0)>>
             ELSE IF Get(template, "needs_substring")
             THEN IF analysis.sample_values # <<>> /\ dtype = "object"
                  THEN <<Binding("", Prefix(first, 3), Prefix(first, 3), 0)>>
                  ELSE <<>>
             ELSE <<Binding("", "", "", 0)>>
        ELSE FlattenSeq([o \in 1..Len(names) |->
                IF names[o] = col \/ ~MeetsRequiresOtherBank(column_analysis[names[o]], template)
                THEN <<>>
                ELSE <<Binding(names[o], "", "", 0)>>])

\* the questions of one column and one template (the body of the two loops)
BankQuestionsFor(df, dataset_name, col, template, bindings) ==
    [j \in 1..Len(bindings) |-> BankQuestion(df, dataset_name, template, col, bindings[j])]

\* generate_question_bank.py: generate_questions_for_dataset, on a table that
\* was read; raises (ZeroDivisionError in analyze_column) on a table without rows
generate_questions_for_dataset_bank(df, dataset_name) ==
    LET names == Columns(df)
        column_analysis == [c \in Range(names) |-> analyze_column_bank(df, c)]
        templates == generate_question_templates_bank
    IN  FlattenSeq([c \in 1..Len(names) |->
            FlattenSeq([t \in 1..Len(templates) |->
                BankQuestionsFor(df, dataset_name, names[c], templates[t],
                    BankBindings(df, column_analysis, names[c], templates[t]))])])

-----------------------------------------------------------------------------
(* Question Synthesizer, generate_questions_v2.py *)

\* the random module: the generator's state and the draws the program makes.
\* The state after a draw is a function of the state before it.
RngNext(r) == (5 * r + 3) % 8

\* random's _randbelow(n): a number in 0..n-1 drawn from state r
RandBelow(r, n) == r % n

\* random.choice drawing from a state that differs from run to run
random_choice_PerRun(r, seq) ==
    [value |-> seq[RandBelow(r + run, Len(seq)) + 1], rng |-> RngNext(r)]
\* random.choice(seq): [value, rng]
random_choice(r, seq) ==
    [value |-> seq[RandBelow(r, Len(seq)) + 1], rng |-> RngNext(r)]

\* random.sample(population, 2): [value (a pair), rng]
random_sample2(r, population) ==
    LET n == Len(population)
        j1 == RandBelow(r, n) + 1
        r1 == RngNext(r)
        pool == [population EXCEPT ![j1] = population[n]]
        j2 == RandBelow(r1, n - 1) + 1
    IN  [value |-> <<population[j1], pool[j2]>>, rng |-> RngNext(r1)]

\* random.shuffle(x): for i from len(x)-1 down to 1, swap x[i] and x[randbelow(i+1)]
\* (positions counted from 0); [value, rng]
RECURSIVE ShuffleFrom(_, _, _)
ShuffleFrom(r, x, n) ==
    IF n <= 1 THEN [value |-> x, rng |-> r]
    ELSE LET j == RandBelow(r, n) + 1
         IN  ShuffleFrom(RngNext(r), [x EXCEPT ![n] = x[j], ![j] = x[n]], n - 1)

random_shuffle(r, x) == ShuffleFrom(r, x, Len(x))

\* entity_type_map.get(dataset_name, 'record')
entity_type_v2(dataset_name) ==
    CASE dataset_name = "powerplants.csv" -> "power plant"
      [] dataset_name = "motorcycles.csv" -> "motorcycle"
      [] dataset_name = "foods.csv" -> "pet food product"
      [] dataset_name = "grammys.csv" -> "Grammy nomination"
      [] dataset_name = "race-places.csv" -> "race result"
      [] dataset_name = "tickets-tiny.csv" -> "traffic stop"
      [] dataset_name = "crops.csv" -> "crop"
      [] dataset_name = "wreckers.csv" -> "tow truck"
      [] dataset_name = "overflows.csv" -> "overflow event"
      [] dataset_name = "forces.csv" -> "force measurement"
      [] dataset_name = "injurydat-cleaned.csv" -> "injury report"
      [] dataset_name = "township-154.csv" -> "township record"
      [] dataset_name = "boston_house_prices.csv" -> "house"
      [] dataset_name = "msft.csv" -> "stock trading day"
      [] OTHER -> "record"

\* value_counts[value_counts > 1].index.tolist()[:n]
common_values(vals, n) ==
    LET vc == SelectSeq(value_counts(vals), LAMBDA pair : pair[2] > 1)
    IN  [j \in 1..Min(n, Len(vc)) |-> vc[j][1]]

\* twice df[col].median() of a column with a value
Median2(vals) ==
    LET sv == SortBy(DropNa(vals), LAMBDA a, b : a < b)
        n == Len(sv)
    IN  IF n % 2 = 1 THEN 2 * sv[(n + 1) \div 2] ELSE sv[n \div 2] + sv[n \div 2 + 1]

\* f"{question_id:03d}"
Pad3(n) == (IF n < 10 THEN "00" ELSE IF n < 100 THEN "0" ELSE "") \o NatStr(n)

\* the question record of one binding.  column, other_column, template_id and
\* values (the literals bound) are the loop variables the record was built
\* from (the record itself carries them in id, dataPreview and code); the preview, the column descriptions,
\* the context and the hint are presentation and are left out.  The code is
\* never executed: the result is the constant text.
V2Question(dataset_name, template, question_id, col, other, b) ==
    [id |-> StripCsv(dataset_name) \o "_" \o template.id \o "_" \o Pad3(question_id),
     dataset |-> dataset_name, template_id |-> template.id,
     column |-> col, other_column |-> other,
     question |-> Format(template.template, b),
     code |-> Format(template.code_template, b),
     result |-> "Computed result",
     values |-> IF "value1" \in DOMAIN b THEN <<b.value1, b.value2>>
                ELSE IF "value" \in DOMAIN b THEN <<b.value>> ELSE <<>>,
     difficulty |-> template.difficulty, concepts |-> template.concepts]

\* the loop over the other columns of a two-column template, from the o-th
\* column on; st is [questions, question_id, rng]
RECURSIVE V2OtherLoop(_, _, _, _, _, _, _)
V2OtherLoop(df, dataset_name, column_analysis, col, template, o, st) ==
    LET names == Columns(df)
        other_col == names[o]
        other_analysis == column_analysis[other_col]
        meets_requirements == \E r \in 1..Len(template.requires_other) :
            template.requires_other[r] = "any" \/ Get(other_analysis, template.requires_other[r])
        q == V2Question(dataset_name, template, st.question_id, col, other_col,
                [entity |-> entity_type_v2(dataset_name), column |-> col, other_column |-> other_col])
        st1 == [st EXCEPT !.questions = Append(@, q), !.question_id = @ + 1]
    IN  IF o > Len(names) THEN st
        ELSE IF other_col = col \/ Get(other_analysis, "is_identifier") \/ ~meets_requirements
        THEN V2OtherLoop(df, dataset_name, column_analysis, col, template, o + 1, st)
        ELSE IF st1.question_id % 5 = 0 THEN st1
        ELSE V2OtherLoop(df, dataset_name, column_analysis, col, template, o + 1, st1)

\* one template for one column that is no identifier: the state after it
V2Template(df, dataset_name, column_analysis, col, template, st) ==
    LET analysis == column_analysis[col]
        vals == Col(df, col).vals
        entity == entity_type_v2(dataset_name)
        emit(b, r) == [questions |-> Append(st.questions,
                            V2Question(dataset_name, template, st.question_id, col, "", b)),
                       question_id |-> st.question_id + 1, rng |-> r]
        common5 == common_values(vals, 5)
        common10 == common_values(vals, 10)
        pick == random_choice(st.rng, common5)
        pair == random_sample2(st.rng, common10)
        median == FloatStr(Median2(vals), 2)
    IN  IF ~MeetsRequires(analysis, template) THEN st
        ELSE IF "requires_other" \in DOMAIN template
        THEN V2OtherLoop(df, dataset_name, column_analysis, col, template, 1, st)
        ELSE IF Get(template, "needs_value")
        THEN IF analysis.sample_values # <<>> /\ common5 # <<>>
             THEN emit([entity |-> entity, column |-> col, value |-> pick.value], pick.rng)
             ELSE st
        ELSE IF Get(template, "needs_numeric_value")
        THEN IF analysis.is_numeric /\ analysis.sample_values # <<>>
             THEN emit([entity |-> entity, column |-> col, value |-> median], st.rng)
             ELSE st
        ELSE IF Get(template, "needs_two_values")
        THEN IF Len(analysis.sample_values) >= 2 /\ Len(common10) >= 2
             THEN emit([entity |-> entity, column |-> col,
                        value1 |-> pair.value[1], value2 |-> pair.value[2]], pair.rng)
             ELSE st
        ELSE emit([entity |-> entity, column |-> col], st.rng)

\* the two outer loops, from template t of column c on
RECURSIVE V2Loop(_, _, _, _, _, _)
V2Loop(df, dataset_name, column_analysis, c, t, st) ==
    LET names == Columns(df)
        templates == generate_question_templates_v2
    IN  IF c > Len(names) THEN st
        ELSE IF t > Len(templates) \/ Get(column_analysis[names[c]], "is_identifier")
        THEN V2Loop(df, dataset_name, column_analysis, c + 1, 1, st)
        ELSE \* the state after this template is computed, then the loop goes on
             CHOOSE out \in {V2Loop(df, dataset_name, column_analysis, c, t + 1, next) :
                                next \in {V2Template(df, dataset_name, column_analysis,
                                                     names[c], templates[t], st)}} : TRUE

\* generate_questions_v2.py: generate_questions_for_dataset, on a table that
\* was read and has rows, with the generator in state r: [questions, question_id, rng]
generate_questions_for_dataset_v2(df, dataset_name, r) ==
    V2Loop(df, dataset_name,
           [c \in Range(Columns(df)) |-> analyze_column_v2(df, c)], 1, 1,
           [questions |-> <<>>, question_id |-> 1, rng |-> r])

-----------------------------------------------------------------------------
(* The datasets directory: the files the drivers read.  A file is missing, *)
(* unparsable (pd.read_csv raises) or holds a table.                        *)

MissingFile == [state |-> "missing", cols |-> <<>>, nrows |-> 0]
UnparsableFile == [state |-> "unparsable", cols |-> <<>>, nrows |-> 0]
TableFile(cols, n) == [state |-> "table", cols |-> cols, nrows |-> n]

\* the dtype pd.read_csv gives a column: object with a text cell (and for a
\* file of a header only), float64 for numbers with a missing cell, else int64
NumColumn(name, vals) ==
    [dtype |-> IF \E j \in 1..Len(vals) : IsNull(vals[j]) THEN "float64" ELSE "int64",
     name |-> name, vals |-> vals]
TextColumn(name, vals) == [dtype |-> "object", name |-> name, vals |-> vals]

NumVals == {1, 2}
TextVals == {"open", "closed"}
ColNames == {"user_id", "status"}

Cells(dom) == {Missing} \cup {<<v>> : v \in dom}

\* the columns of n rows under a name: any numbers, or any text with a value
ColumnsOf(name, n) ==
    IF n = 0 THEN {TextColumn(name, <<>>)}
    ELSE {NumColumn(name, vals) : vals \in [1..n -> Cells(NumVals)]}
         \cup {TextColumn(name, vals) :
                  vals \in {v \in [1..n -> Cells(TextVals)] : \E j \in 1..n : ~IsNull(v[j])}}

\* columns that stand beside a column of ColumnsOf in a table of two columns
Companions(n) ==
    IF n = 0 THEN {TextColumn("amount", <<>>)}
    ELSE {NumColumn("amount", [j \in 1..n |-> <<1 + (j % 2)>>]),
          NumColumn("Number", [j \in 1..n |-> <<1>>]),
          TextColumn("category", [j \in 1..n |-> IF j = 2 THEN <<"closed">> ELSE <<"open">>])}

TablesOf(n) ==
    LET free == UNION {ColumnsOf(name, n) : name \in ColNames}
    IN  {TableFile(<<f>>, n) : f \in free}
        \cup {TableFile(<<f, g>>, n) : f \in free, g \in Companions(n)}
        \cup {TableFile(<<g, f>>, n) : f \in free, g \in Companions(n)}

Tables == UNION {TablesOf(n) : n \in 0..MaxRows}

\* the tables of the scenarios of the specification
StatusTable ==
    TableFile(<<TextColumn("status",
        << <<"open">>, <<"open">>, <<"closed">>, <<"closed">>, <<"open">> >>)>>, 5)
SalesTable ==
    TableFile(<<TextColumn("category", << <<"A">>, <<"A">>, <<"B">>, <<"C">> >>),
                NumColumn("amount", << <<10>>, <<20>>, <<30>>, <<40>> >>)>>, 4)

\* a table with a text column of few values and a numeric column named zip
NamesTable ==
    TableFile(<<TextColumn("name", << <<"ann">>, <<"ann">>, <<"bob">>, <<"bob">>, <<"ann">> >>),
                NumColumn("zip", << <<10>>, <<20>>, <<30>>, <<40>>, <<50>> >>)>>, 5)

\* a table of three columns: a text column of few values and two numeric
\* columns that are no identifiers
WideTable ==
    TableFile(<<TextColumn("status", << <<"open">>, <<"open">>, <<"closed">>, <<"closed">>, <<"open">> >>),
                NumColumn("amount", << <<10>>, <<10>>, <<20>>, <<30>>, <<40>> >>),
                NumColumn("price", << <<1>>, <<1>>, <<2>>, <<3>>, <<4>> >>)>>, 5)

FewFiles == {MissingFile, UnparsableFile, StatusTable, SalesTable}

\* main's dataset lists, cut to MaxDatasets entries
datasets_bank ==
    SubSeq(<<"powerplants.csv", "motorcycles.csv", "foods.csv", "grammys.csv",
             "race-places.csv", "tickets-tiny.csv">>, 1, Min(MaxDatasets, 6))
datasets_v2 ==
    SubSeq(<<"powerplants.csv", "motorcycles.csv", "foods.csv", "grammys.csv",
             "race-places.csv", "tickets-tiny.csv", "crops.csv", "wreckers.csv",
             "overflows.csv", "forces.csv">>, 1, Min(MaxDatasets, 10))
datasets_review ==
    SubSeq(<<"powerplants.csv", "motorcycles.csv", "foods.csv", "grammys.csv",
             "race-places.csv", "tickets-tiny.csv">>, 1, Min(MaxDatasets, 6))

DatasetsOf(p) ==
    CASE p = "bank" -> datasets_bank [] p = "v2" -> datasets_v2 [] OTHER -> datasets_review

FileNames == Range(datasets_v2)

\* the directories of the model: one file with any table of Tables and no
\* other file, or every file one of FewFiles
Directories ==
    {[name \in FileNames |-> IF name = datasets_v2[1] THEN f ELSE MissingFile] :
        f \in Tables \cup {WideTable}}
    \cup [FileNames -> FewFiles]

-----------------------------------------------------------------------------
(* Pipeline Driver, pass 1: main of generate_question_bank.py and of        *)
(* generate_questions_v2.py.  One action is one iteration of the dataset    *)
(* loop; the save action is everything after the loop.                      *)

AfterDataset(p) == IF i = Len(DatasetsOf(p)) THEN "save" ELSE "datasets"

\* generate_question_bank.py main, loop body: a missing file is skipped
\* (os.path.exists); a file that cannot be parsed, or a table without rows,
\* raises out of generate_questions_for_dataset and ends main
bank_main_dataset ==
    /\ prog = "bank" /\ pc = "datasets"
    /\ LET dataset == datasets_bank[i]
           f == fs[dataset]
       IN  \/ /\ f.state = "missing"
              /\ pc' = AfterDataset("bank")
              /\ i' = i + 1
              /\ UNCHANGED all_questions
           \/ /\ f.state = "unparsable" \/ (f.state = "table" /\ analyze_column_raises(f))
              /\ pc' = "crashed"
              /\ UNCHANGED <<i, all_questions>>
           \/ /\ f.state = "table" /\ ~analyze_column_raises(f)
              /\ all_questions' = all_questions \o generate_questions_for_dataset_bank(f, dataset)
              /\ pc' = AfterDataset("bank")
              /\ i' = i + 1
    /\ UNCHANGED <<prog, fs, rng, raw_questions, datasets, k, good_questions,
                   rejected_questions, output, run, first_output, seed>>

\* generate_question_bank.py main, after the loop: question_bank_raw.json
bank_main_save ==
    /\ prog = "bank" /\ pc = "save"
    /\ output' = <<[total_questions |-> Len(all_questions),
                    valid_questions |-> Len(SelectSeq(all_questions, LAMBDA q : q.status = "valid")),
                    questions |-> all_questions]>>
    /\ pc' = "done"
    /\ UNCHANGED <<prog, fs, i, all_questions, rng, raw_questions, datasets, k,
                   good_questions, rejected_questions, run, first_output, seed>>

\* generate_questions_v2.py main, loop body: a missing file is skipped; any
\* exception of generate_questions_for_dataset is caught and the dataset
\* skipped (add_explanations adds a text to each question and cannot raise)
v2_main_dataset ==
    /\ prog = "v2" /\ pc = "datasets"
    /\ LET dataset == datasets_v2[i]
           f == fs[dataset]
           st == generate_questions_for_dataset_v2(f, dataset, rng)
       IN  \/ /\ f.state = "missing"
              /\ UNCHANGED <<all_questions, rng>>
           \/ /\ f.state = "unparsable" \/ (f.state = "table" /\ analyze_column_raises(f))
              /\ UNCHANGED <<all_questions, rng>>
           \/ /\ f.state = "table" /\ ~analyze_column_raises(f)
              /\ all_questions' = all_questions \o st.questions
              /\ rng' = st.rng
    /\ pc' = AfterDataset("v2")
    /\ i' = i + 1
    /\ UNCHANGED <<prog, fs, raw_questions, datasets, k, good_questions,
                   rejected_questions, output, run, first_output, seed>>

\* generate_questions_v2.py main, after the loop: random.shuffle and
\* generated_questions_pool.json
v2_main_save ==
    /\ prog = "v2" /\ pc = "save"
    /\ LET sh == random_shuffle(rng, all_questions)
       IN  /\ all_questions' = sh.value
           /\ rng' = sh.rng
           /\ output' = <<[questions |-> sh.value]>>
    /\ pc' = "done"
    /\ UNCHANGED <<prog, fs, i, raw_questions, datasets, k, good_questions,
                   rejected_questions, run, first_output, seed>>

-----------------------------------------------------------------------------
(* Question Validator / Reviewer, review_questions.py.  A raw question is  *)
(* a record of question_bank_raw.json as generate_question_bank.py writes  *)
(* it; other_column = "" stands for a record without that key.             *)

\* the ZeroDivisionError of the high-cardinality check on a table without rows
evaluate_question_raises(question, df) ==
    Contains("groupby", question.code) /\ HasColumn(df, question.column) /\ NRows(df) = 0

\* the empty-result test with no result ever taken as empty
EmptyResult_Never(res) == FALSE
\* isinstance(result, pd.DataFrame) and len(result) == 0
EmptyResult(res) == res.kind = "frame" /\ res.len = 0

\* the evaluation of a question whose code gave res (or raised: res.kind = "error")
Evaluation(question, df, res) ==
    LET q_text == Lower(question.question)
        code == question.code
        groupby_col == question.column
        issue1 == (\E word \in {"id", "code", "number", "zip"} : Contains(word, Lower(question.column)))
                  /\ (\E op \in {".mean()", ".sum()"} : Contains(op, code))
        issue2 == /\ Contains("groupby", code)
                  /\ HasColumn(df, groupby_col)
                  /\ RatioAbove05(NUnique(Col(df, groupby_col).vals), NRows(df))
        empty == EmptyResult(res)
        large == res.kind = "series" /\ res.len > 100
        raised == res.kind = "error"
        odd == [pattern \in {"average name", "sum category", "total id"} |->
                    Contains(pattern, q_text)]
    IN  [makes_sense |-> ~(issue1 \/ issue2 \/ raised \/ odd["average name"]
                            \/ odd["sum category"] \/ odd["total id"]),
         is_meaningful |-> ~(empty \/ large),
         reasons |->
            (IF issue1 THEN <<"Calculating mean/sum of IDs or codes is not meaningful">> ELSE <<>>)
            \o (IF issue2 THEN <<"Grouping by " \o groupby_col \o " has too many unique values ("
                                 \o NatStr(NUnique(Col(df, groupby_col).vals)) \o ")">> ELSE <<>>)
            \o (IF empty THEN <<"Query returns empty result">> ELSE <<>>)
            \o (IF large THEN <<"Result has too many categories to be useful">> ELSE <<>>)
            \o (IF raised THEN <<"Code execution error: " \o res.text>> ELSE <<>>)
            \o (IF odd["average name"] THEN <<"Cannot average names">> ELSE <<>>)
            \o (IF odd["sum category"] THEN <<"Cannot sum categories">> ELSE <<>>)
            \o (IF odd["total id"] THEN <<"Summing IDs is not meaningful">> ELSE <<>>)]

\* review_questions.py: evaluate_question, where it returns
evaluate_question(question, df) ==
    Evaluation(question, df,
               eval_code(question.template_id, question.column, question.other_column,
                         question.value, question.num2, df))

\* review_questions.py: determine_concepts
determine_concepts(code) ==
    LET concept_patterns == <<
            <<"value_counts()", "value_counts">>, <<"groupby(", "groupby">>,
            <<".mean()", "mean">>, <<".sum()", "sum">>, <<".max()", "max">>,
            <<".min()", "min">>, <<"nlargest(", "nlargest">>, <<"nsmallest(", "nsmallest">>,
            <<".nunique()", "nunique">>, <<".idxmax()", "idxmax">>, <<"len(df[", "filtering">>,
            <<"df[df[", "boolean_indexing">>, <<".str.contains(", "string_contains">>,
            <<".sort_values(", "sorting">> >>
        found == SelectSeq(concept_patterns, LAMBDA pc_ : Contains(pc_[1], code))
    IN  [j \in 1..Len(found) |-> found[j][2]]

\* review_questions.py: generate_hint
generate_hint(question) ==
    CASE question.template_id = "value_counts_basic" -> "Count how many times each value appears"
      [] question.template_id = "groupby_mean" -> "Group the data first, then calculate the average"
      [] question.template_id = "filter_equals" -> "Filter the dataframe to only include matching rows"
      [] question.template_id = "nlargest" -> "Find the rows with the highest values"
      [] question.template_id = "string_contains" -> "Use string methods to search for partial matches"
      [] OTHER -> "Think about what operation would answer this question"

\* the columns of the question, then the first three of the table, no repeats
cols_in_question(raw_question) ==
    <<raw_question.column>> \o
    (IF raw_question.other_column # "" THEN <<raw_question.other_column>> ELSE <<>>)

\* df[preview_cols] raises KeyError for a column the table does not have
create_final_question_raises(raw_question, df) ==
    \E c \in Range(cols_in_question(raw_question)) : ~HasColumn(df, c)

\* review_questions.py: create_final_question, where it returns
create_final_question(raw_question, df) ==
    LET names == Columns(df)
        preview_cols == Prefix(Distinct(cols_in_question(raw_question)
                                        \o SubSeq(names, 1, Min(3, Len(names)))), 5)
        dataset == raw_question.dataset
    IN  [dataset |-> dataset,
         dataPreview |-> [r \in 1..Min(5, NRows(df)) |->
                            [c \in 1..Len(preview_cols) |-> Col(df, preview_cols[c]).vals[r]]],
         dataColumns |-> preview_cols,
         context |->
            CASE dataset = "powerplants.csv" -> "This dataset contains information about US power plants including their location, energy source, and production capacity."
              [] dataset = "motorcycles.csv" -> "This dataset contains technical specifications for motorcycles from various manufacturers."
              [] dataset = "foods.csv" -> "This dataset contains nutritional information for pet food products."
              [] dataset = "grammys.csv" -> "This dataset contains Grammy award nominations and winners from 1990-2023."
              [] dataset = "race-places.csv" -> "This dataset contains race results for various drivers over multiple years."
              [] dataset = "tickets-tiny.csv" -> "This dataset contains traffic violation records with demographic information."
              [] OTHER -> "Dataset of " \o dataset,
         question |-> raw_question.question,
         canonicalAnswer |-> [code |-> raw_question.code, result |-> raw_question.result],
         difficulty |-> raw_question.difficulty,
         concepts |-> determine_concepts(raw_question.code),
         hint |-> generate_hint(raw_question)]

-----------------------------------------------------------------------------
(* Pipeline Driver, pass 2: main of review_questions.py *)

\* the table main keeps for a dataset: powerplants gets a column 'state'
loaded_table(dataset_name, f) ==
    IF dataset_name = "powerplants.csv" /\ ~HasColumn(f, "state")
    THEN [f EXCEPT !.cols = Append(@, TextColumn("state", [j \in 1..NRows(f) |-> <<"Unknown">>]))]
    ELSE f

\* the loop that loads the datasets: a file that is missing or cannot be
\* parsed makes pd.read_csv raise, which is caught, and the dataset is left out
review_main_dataset ==
    /\ prog = "review" /\ pc = "datasets"
    /\ LET dataset_name == datasets_review[i]
           f == fs[dataset_name]
       IN  \/ /\ f.state # "table"
              /\ UNCHANGED datasets
           \/ /\ f.state = "table"
              /\ datasets' = (dataset_name :> loaded_table(dataset_name, f)) @@ datasets
    /\ pc' = IF i < Len(datasets_review) THEN "datasets"
             ELSE IF raw_questions = <<>> THEN "save" ELSE "evaluate"
    /\ i' = i + 1
    /\ UNCHANGED <<prog, fs, all_questions, rng, raw_questions, k, good_questions,
                   rejected_questions, output, run, first_output, seed>>

\* main's test taken as evaluation['makes_sense'] alone
Verdict_MakesSenseOnly(q, df, evaluation) ==
    IF evaluate_question_raises(q, df) THEN "crash"
    ELSE IF ~evaluation.makes_sense THEN "reject"
    ELSE IF create_final_question_raises(q, df) THEN "crash"
    ELSE "accept"
\* what main does with raw question q of a loaded dataset, given its
\* evaluation: "crash" when evaluate_question or create_final_question raises
Verdict(q, df, evaluation) ==
    IF evaluate_question_raises(q, df) THEN "crash"
    ELSE IF ~(evaluation.makes_sense /\ evaluation.is_meaningful) THEN "reject"
    ELSE IF create_final_question_raises(q, df) THEN "crash"
    ELSE "accept"

\* the loop over the raw questions, one question
review_main_question ==
    /\ prog = "review" /\ pc = "evaluate"
    /\ LET q == raw_questions[k]
       IN  \/ /\ q.status # "valid"
              /\ rejected_questions' = Append(rejected_questions, <<q, "Invalid code">>)
              /\ pc' = IF k = Len(raw_questions) THEN "save" ELSE "evaluate"
              /\ UNCHANGED good_questions
           \/ /\ q.status = "valid" /\ q.dataset \notin DOMAIN datasets
              /\ rejected_questions' = Append(rejected_questions, <<q, "Dataset not found">>)
              /\ pc' = IF k = Len(raw_questions) THEN "save" ELSE "evaluate"
              /\ UNCHANGED good_questions
           \/ /\ q.status = "valid" /\ q.dataset \in DOMAIN datasets
              /\ \E evaluation \in {evaluate_question(q, datasets[q.dataset])} :
                 \E verdict \in {Verdict(q, datasets[q.dataset], evaluation)} :
                    /\ pc' = IF verdict = "crash" THEN "crashed"
                             ELSE IF k = Len(raw_questions) THEN "save" ELSE "evaluate"
                    /\ good_questions' =
                          IF verdict = "accept"
                          THEN Append(good_questions, create_final_question(q, datasets[q.dataset]))
                          ELSE good_questions
                    /\ rejected_questions' =
                          IF verdict = "reject"
                          THEN Append(rejected_questions, <<q, evaluation.reasons>>)
                          ELSE rejected_questions
    /\ k' = IF pc' = "crashed" THEN k ELSE k + 1
    /\ UNCHANGED <<prog, fs, i, all_questions, rng, raw_questions, datasets,
                   output, run, first_output, seed>>

\* the per-dataset count set to 1 instead of incremented
dataset_counts_NoIncrement(questions) ==
    [d \in {questions[j].dataset : j \in 1..Len(questions)} |-> 1]
\* the number of good questions of each dataset that has one
dataset_counts(questions) ==
    [d \in {questions[j].dataset : j \in 1..Len(questions)} |->
        Cardinality({j \in 1..Len(questions) : questions[j].dataset = d})]

\* after the loops: questions_filtered.json
review_main_save ==
    /\ prog = "review" /\ pc = "save"
    /\ output' = <<[questions |-> good_questions,
                    metadata |-> [totalQuestions |-> Len(good_questions),
                                  datasets |-> dataset_counts(good_questions)]]>>
    /\ pc' = "done"
    /\ UNCHANGED <<prog, fs, i, all_questions, rng, raw_questions, datasets, k,
                   good_questions, rejected_questions, run, first_output, seed>>

-----------------------------------------------------------------------------
(* The inputs of a review run: question_bank_raw.json *)

TemplateBank(id) ==
    generate_question_templates_bank[
        CHOOSE t \in 1..Len(generate_question_templates_bank) :
            generate_question_templates_bank[t].id = id]

\* a record of the raw bank: template id bound to col (and other), with the
\* text shown for {value} in the question and the text value put in the code
RawQuestion(dataset, id, col, other, shown, value, num2, status) ==
    BankRecord(dataset, TemplateBank(id), col, Binding(other, shown, value, num2),
               [result |-> "as generated", status |-> status])

SingleIds == {"value_counts_basic", "value_counts_top", "unique_count", "mean_simple",
              "sum_simple", "max_value", "nlargest"}
PairIds == {"groupby_count", "groupby_mean", "groupby_sum", "groupby_max_category"}

\* the valid raw questions about a table.  For a table of one column: the
\* one-column templates on it (with values for the filters), the two-column
\* templates with a column the
\* table lacks, and one question on a column it lacks.  For a table of two
\* columns: every two-column template on its columns, in both orders.
RawPoolFor(dataset, f) ==
    LET cols == Range(Columns(f))
    IN  IF Len(f.cols) = 1
        THEN {RawQuestion(dataset, id, c, "", "", "", 0, "valid") : id \in SingleIds, c \in cols}
             \cup {RawQuestion(dataset, "filter_equals", c, "", "open", v, 0, "valid") :
                     c \in cols, v \in {"'open'", "open"}}
             \cup {RawQuestion(dataset, "filter_greater", c, "", "1", "1", 2, "valid") : c \in cols}
             \cup {RawQuestion(dataset, "string_contains", c, "", v, v, 0, "valid") :
                     c \in cols, v \in {"ope", "clo"}}
             \cup {RawQuestion(dataset, id, c, "price", "", "", 0, "valid") : id \in PairIds, c \in cols}
             \cup {RawQuestion(dataset, "mean_simple", "price", "", "", "", 0, "valid")}
        ELSE UNION {{RawQuestion(dataset, id, c, o, "", "", 0, "valid") :
                        id \in PairIds, o \in cols \ {c}} : c \in cols}

\* the raw questions of the runs over several datasets
FewRawQuestions ==
    {RawQuestion(datasets_review[1], "value_counts_basic", "status", "", "", "", 0, "valid"),
     RawQuestion(datasets_review[1], "filter_equals", "status", "", "open", "'open'", 0, "error"),
     RawQuestion(datasets_review[1], "groupby_mean", "category", "amount", "", "", 0, "valid"),
     RawQuestion(datasets_review[1], "string_contains", "status", "", "A", "A", 0, "valid"),
     RawQuestion(datasets_review[Len(datasets_review)], "value_counts_basic", "status", "", "", "", 0, "valid"),
     RawQuestion("tickets-tiny.csv", "mean_simple", "amount", "", "", "", 0, "valid")}

\* the tables a review run with one raw question reads
ReviewTables ==
    {f \in Tables : Len(f.cols) = 1 \/ (f.cols[1].name \in ColNames /\ f.cols[2].name = "amount")}
    \cup {NamesTable}

-----------------------------------------------------------------------------
(* Specification *)

InitCommon ==
    /\ pc = "datasets"
    /\ i = 1
    /\ all_questions = <<>>
    /\ datasets = <<>>
    /\ k = 1
    /\ good_questions = <<>>
    /\ rejected_questions = <<>>
    /\ output = <<>>
    /\ run = 1
    /\ first_output = <<>>

InitBank ==
    /\ prog = "bank"
    /\ fs \in Directories
    /\ rng = 0
    /\ raw_questions = <<>>

InitV2 ==
    /\ prog = "v2"
    /\ fs \in Directories
    /\ rng \in 0..MaxSeed
    /\ raw_questions = <<>>

InitReview ==
    /\ prog = "review"
    /\ rng = 0
    /\ \/ /\ fs \in [FileNames -> FewFiles]
          /\ raw_questions \in UNION {[1..n -> FewRawQuestions] : n \in 0..MaxRaw}
       \/ \E f \in ReviewTables :
            /\ fs = [name \in FileNames |-> IF name = datasets_review[1] THEN f ELSE MissingFile]
            /\ raw_questions \in {<<q>> : q \in RawPoolFor(datasets_review[1], f)}

Init == InitCommon /\ (InitBank \/ InitV2 \/ InitReview) /\ seed = rng

Next ==
    \/ bank_main_dataset
    \/ bank_main_save
    \/ v2_main_dataset
    \/ v2_main_save
    \/ review_main_dataset
    \/ review_main_question
    \/ review_main_save

Spec == Init /\ [][Next]_vars

\* a second run of a generator on the same directory, the random generator
\* set to the state the first run started in (the same seed)
rerun ==
    /\ prog \in {"bank", "v2"} /\ pc = "done" /\ run = 1
    /\ run' = 2
    /\ first_output' = output
    /\ output' = <<>>
    /\ pc' = "datasets"
    /\ i' = 1
    /\ all_questions' = <<>>
    /\ rng' = seed
    /\ UNCHANGED <<prog, fs, raw_questions, datasets, k, good_questions,
                   rejected_questions, seed>>

NextRerun ==
    \/ Next
    \/ rerun

SpecRerun == Init /\ [][NextRerun]_vars

-----------------------------------------------------------------------------
(* Properties of the Column Profiler and of the Question Synthesizer *)

\* the tables main of pass 1 has read and handed to generate_questions_for_dataset
SynthesizedTables ==
    IF prog \in {"bank", "v2"}
    THEN {f \in {fs[DatasetsOf(prog)[d]] : d \in 1..(i - 1)} : f.state = "table" /\ NRows(f) > 0}
    ELSE {}

\* the profile the running generator computes for a column
Profile(df, col) ==
    IF prog = "bank" THEN analyze_column_bank(df, col) ELSE analyze_column_v2(df, col)

\* C1: no question of the synthesizer's output is bound to a column, primary
\* or secondary, whose profile has is_identifier set
C1_NoQuestionOnIdentifier ==
    prog \in {"bank", "v2"} =>
        \A j \in 1..Len(all_questions) :
            LET q == all_questions[j]
                df == fs[q.dataset]
            IN  /\ ~Get(Profile(df, q.column), "is_identifier")
                /\ q.other_column # "" => ~Get(Profile(df, q.other_column), "is_identifier")

\* C2: a column whose unique ratio is above 0.9, or whose name contains "id"
\* or "number", is granted neither can_sum nor can_mean; is_identifier implies
\* both are false
C2_IdLikeNeverSumOrMean ==
    \A df \in SynthesizedTables : \A col \in Range(Columns(df)) :
        LET profile == Profile(df, col)
            idlike == \/ 10 * NUnique(Col(df, col).vals) > 9 * NRows(df)
                      \/ Contains("id", Lower(col))
                      \/ Contains("number", Lower(col))
        IN  (idlike \/ Get(profile, "is_identifier"))
                => ~Get(profile, "can_sum") /\ ~Get(profile, "can_mean")

\* C2, its case: a numeric column with an ordinary name and a unique ratio
\* above 0.9 has been profiled as an identifier
C2_Witness ==
    \E df \in SynthesizedTables : \E col \in Range(Columns(df)) :
        /\ is_numeric_dtype(Col(df, col))
        /\ ~Contains("id", Lower(col)) /\ ~Contains("number", Lower(col))
        /\ 10 * NUnique(Col(df, col).vals) > 9 * NRows(df)
        /\ Get(Profile(df, col), "is_identifier")

\* C3: a non-numeric column is granted can_group_by exactly when its unique
\* ratio is strictly below 0.5; a numeric column never is
C3_GroupByIffRatioBelowHalf ==
    \A df \in SynthesizedTables : \A col \in Range(Columns(df)) :
        LET profile == Profile(df, col)
        IN  IF is_numeric_dtype(Col(df, col))
            THEN ~Get(profile, "can_group_by")
            ELSE Get(profile, "can_group_by") <=> (2 * NUnique(Col(df, col).vals) < NRows(df))

\* C3, its case: a text column whose unique ratio is exactly 0.5 has been
\* profiled and is not granted can_group_by
C3_Witness ==
    \E df \in SynthesizedTables : \E col \in Range(Columns(df)) :
        /\ ~is_numeric_dtype(Col(df, col))
        /\ 2 * NUnique(Col(df, col).vals) = NRows(df)
        /\ ~Get(Profile(df, col), "can_group_by")

\* C4: a column named user_id whose values are all distinct is the primary
\* column of no question of the synthesizer's output
C4_UniqueUserIdNeverPrimary ==
    prog \in {"bank", "v2"} =>
        \A j \in 1..Len(all_questions) :
            LET q == all_questions[j]
                df == fs[q.dataset]
            IN  ~(/\ q.column = "user_id"
                  /\ NullCount(Col(df, "user_id").vals) = 0
                  /\ NUnique(Col(df, "user_id").vals) = NRows(df))

Between(code, prefix, suffix) ==
    SubSeq(code, Len(prefix) + 1, Len(code) - Len(suffix))

\* the column status of the scenario: open, open, closed, closed, open
StatusCells == << <<"open">>, <<"open">>, <<"closed">>, <<"closed">>, <<"open">> >>

\* C8: on a table whose column status holds open, open, closed, closed, open,
\* the question of the "how many have {column} equal to {value}" template
\* (filter_equals, filter_count) bound to status and "open" has a code that
\* executes without error and gives 3
C8_StatusOpenCountsThree ==
    prog \in {"bank", "v2"} =>
        \A j \in 1..Len(all_questions) :
            LET q == all_questions[j]
                df == fs[q.dataset]
                literal == IF q.template_id = "filter_equals"
                           THEN Between(q.code, "len(df[df['status'] == '", "'])")
                           ELSE Between(q.code, "(df['status'] == '", "').sum()")
            IN  (/\ q.template_id \in {"filter_equals", "filter_count"}
                 /\ q.column = "status"
                 /\ Contains("equal to \"open\"", q.question)
                 /\ Col(df, "status").vals = StatusCells)
                => /\ eval_code(q.template_id, "status", "", literal, 0, df) = Scalar("3")
                   /\ prog = "bank" => q.status = "valid" /\ q.result = "3"

\* C9: every question of the synthesizer's output records the outcome of
\* executing its code on the table: status "valid" and the result cut to 200
\* characters when the code ran, status "error" and the message when it raised
C9_ExecutionRecorded ==
    prog \in {"bank", "v2"} =>
        \A j \in 1..Len(all_questions) :
            LET q == all_questions[j]
            IN  /\ "status" \in DOMAIN q
                /\ LET res == eval_code(q.template_id, q.column, q.other_column,
                                        q.value, q.num2, fs[q.dataset])
                   IN  IF res.kind = "error"
                       THEN q.status = "error" /\ q.result = "Error: " \o res.text
                       ELSE /\ q.status = "valid"
                            /\ Len(q.result) <= 200
                            /\ q.result = Prefix(res.text, 200)

\* C10: no driver ends on a listed dataset that is missing or cannot be
\* parsed: the dataset is skipped and main goes on to write its output
C10_NoFatalLoadFailure ==
    ~(/\ pc = "crashed"
      /\ i <= Len(DatasetsOf(prog))
      /\ fs[DatasetsOf(prog)[i]].state \in {"missing", "unparsable"})

\* the ids of the templates of the running generator that bind one sampled
\* value, resp. two
OneLiteralIds ==
    IF prog = "bank" THEN {"filter_equals", "filter_greater"}
    ELSE {generate_question_templates_v2[t].id : t \in
            {t \in 1..Len(generate_question_templates_v2) :
                Get(generate_question_templates_v2[t], "needs_value")}}
TwoLiteralIds ==
    IF prog = "bank" THEN {}
    ELSE {generate_question_templates_v2[t].id : t \in
            {t \in 1..Len(generate_question_templates_v2) :
                Get(generate_question_templates_v2[t], "needs_two_values")}}

\* the number of cells of the column that hold the k-th literal of question q
LiteralCount(q, n) ==
    LET vals == Col(fs[q.dataset], q.column).vals
    IN  IF prog = "v2" THEN CountOf(vals, q.values[n])
        ELSE IF q.template_id = "filter_equals"
        THEN CountOf(vals, Between(q.value, "'", "'"))
        ELSE Cardinality({j \in 1..Len(vals) : ~IsNull(vals[j]) /\ 2 * vals[j][1] = q.num2})

\* the values that occur more than once in a column
RepeatedValues(vals) ==
    {vals[j][1] : j \in {j \in 1..Len(vals) : ~IsNull(vals[j]) /\ CountOf(vals, vals[j][1]) > 1}}

\* C16: the value bound by a template that needs a sampled value occurs more
\* than once in the column; the two values of the two-value template are
\* distinct and each occurs more than once; a column without such a value
\* (pair) gets no question of such a template
C16_LiteralsAreRepeatedValues ==
    prog \in {"bank", "v2"} =>
        \A j \in 1..Len(all_questions) :
            LET q == all_questions[j]
                repeated == RepeatedValues(Col(fs[q.dataset], q.column).vals)
            IN  /\ q.template_id \in OneLiteralIds
                     => LiteralCount(q, 1) > 1 /\ repeated # {}
                /\ q.template_id \in TwoLiteralIds
                     => /\ LiteralCount(q, 1) > 1 /\ LiteralCount(q, 2) > 1
                        /\ q.values[1] # q.values[2]
                        /\ Cardinality(repeated) >= 2

\* the catalog of the running generator
Templates ==
    IF prog = "bank" THEN generate_question_templates_bank ELSE generate_question_templates_v2

\* a profile satisfies the secondary requirement of a two-column template
SatisfiesOther(profile, template) ==
    \E r \in 1..Len(template.requires_other) :
        template.requires_other[r] = "any" \/ Get(profile, template.requires_other[r])

\* the output holds a question of the template for the pair of columns
Emitted(name, id, col, other) ==
    \E j \in 1..Len(all_questions) :
        /\ all_questions[j].dataset = name
        /\ all_questions[j].template_id = id
        /\ all_questions[j].column = col
        /\ all_questions[j].other_column = other

\* C17: for every table the synthesizer has gone through, every two-column
\* template, every primary column that is no identifier and meets the
\* template's requirement and every other column that is no identifier and
\* satisfies the secondary requirement, the output holds the question
C17_TwoColumnBindingExhaustive ==
    prog \in {"bank", "v2"} =>
        \A d \in 1..(i - 1) :
            LET name == DatasetsOf(prog)[d]
                df == fs[name]
            IN  (df.state = "table" /\ NRows(df) > 0) =>
                    \A t \in 1..Len(Templates) : "requires_other" \in DOMAIN Templates[t] =>
                        \A col \in Range(Columns(df)) : \A other \in Range(Columns(df)) \ {col} :
                            ( /\ ~Get(Profile(df, col), "is_identifier")
                              /\ ~Get(Profile(df, other), "is_identifier")
                              /\ MeetsRequires(Profile(df, col), Templates[t])
                              /\ SatisfiesOther(Profile(df, other), Templates[t]) )
                                => Emitted(name, Templates[t].id, col, other)

\* the tables the running generator has handed to analyze_column: those of
\* the datasets it has gone through and the one it ended on
ProfiledTables ==
    IF prog \in {"bank", "v2"}
    THEN {f \in {fs[DatasetsOf(prog)[d]] :
                    d \in {d \in 1..Len(DatasetsOf(prog)) : d < i \/ (d = i /\ pc = "crashed")}} :
            f.state = "table"}
    ELSE {}

\* C18: analyze_column raises for no table and no column it is called with,
\* a table without rows included, and the profile of a column without a
\* non-missing value has no sample values
C18_ProfilingNeverRaises ==
    \A df \in ProfiledTables :
        /\ ~analyze_column_raises(df)
        /\ \A col \in Range(Columns(df)) :
              NullCount(Col(df, col).vals) = NRows(df) => Profile(df, col).sample_values = <<>>

\* what a question says about its combination: everything but the id
Combination(q) == <<q.template_id, q.column, q.other_column, q.question, q.code>>

\* the table with its columns in the order perm
Reordered(df, perm) == [df EXCEPT !.cols = [j \in 1..Len(df.cols) |-> df.cols[perm[j]]]]

\* C19: the questions generate_questions_v2.py emits for a table, ids aside,
\* are those it emits, from the same seed, for the same table with its columns
\* in any other order, so with other columns processed before each
\* combination
C19_CombinationsIndependent ==
    (prog = "v2" /\ i >= 2 /\ fs[datasets_v2[1]].state = "table" /\ NRows(fs[datasets_v2[1]]) > 0) =>
        LET name == datasets_v2[1]
            df == fs[name]
            emitted == {Combination(all_questions[j]) :
                            j \in {j \in 1..Len(all_questions) : all_questions[j].dataset = name}}
        IN  \A perm \in Permutations(1..Len(df.cols)) :
                \A other \in {generate_questions_for_dataset_v2(Reordered(df, perm), name, seed).questions} :
                    {Combination(other[j]) : j \in 1..Len(other)} = emitted

\* the group-by questions of the bank generator's output
BankGroupBy ==
    IF prog = "bank"
    THEN {j \in 1..Len(all_questions) : Contains("groupby", all_questions[j].code)}
    ELSE {}

\* C20: every group-by question generate_question_bank.py emits is bound to
\* a primary column whose unique ratio is below 0.5, and evaluate_question,
\* run on it with the table review_questions.py loads from the same file,
\* gives no high-cardinality reason
C20_GroupByAgreesWithReview ==
    \A j \in BankGroupBy :
        LET q == all_questions[j]
            df == loaded_table(q.dataset, fs[q.dataset])
        IN  /\ HasColumn(df, q.column)
            /\ 2 * NUnique(Col(df, q.column).vals) < NRows(df)
            /\ \A evaluation \in {evaluate_question(q, df)} :
                  \A r \in 1..Len(evaluation.reasons) :
                      ~Contains("has too many unique values", evaluation.reasons[r])

\* C20, its case: the bank generator has emitted a group-by question
C20_Witness ==
    \E j \in BankGroupBy :
        /\ all_questions[j].other_column # ""
        /\ all_questions[j].status = "valid"

-----------------------------------------------------------------------------
(* Properties of the Question Validator *)

\* raw question j has been through the loop of main, with a loaded dataset
Reviewed(j) ==
    /\ prog = "review" /\ j < k
    /\ raw_questions[j].status = "valid"
    /\ raw_questions[j].dataset \in DOMAIN datasets

\* raw question q is in good_questions (in final format), resp. in rejected_questions
InGood(q) ==
    \E g \in 1..Len(good_questions) :
        /\ good_questions[g].dataset = q.dataset
        /\ good_questions[g].question = q.question
        /\ good_questions[g].canonicalAnswer.code = q.code
InRejected(q) ==
    \E r \in 1..Len(rejected_questions) : rejected_questions[r][1] = q

\* C6: a reviewed question whose code groups by a column of the table with a
\* unique ratio above 0.5 is rejected, with the reason that names the column
\* and its unique count, and is not accepted
C6_HighCardinalityGroupByRejected ==
    \A j \in 1..Len(raw_questions) :
        LET q == raw_questions[j]
            df == datasets[q.dataset]
            u == NUnique(Col(df, q.column).vals)
            reason == "Grouping by " \o q.column \o " has too many unique values ("
                      \o NatStr(u) \o ")"
        IN  (/\ Reviewed(j)
             /\ Contains("groupby", q.code)
             /\ HasColumn(df, q.column)
             /\ 2 * u > NRows(df))
            => /\ ~InGood(q)
               /\ \E r \in 1..Len(rejected_questions) :
                     /\ rejected_questions[r][1] = q
                     /\ \E m \in 1..Len(rejected_questions[r][2]) :
                           rejected_questions[r][2][m] = reason

\* C6, its case: a groupby question on a column with two unique values in
\* three rows, which raises no error and has no other fault, has been rejected
C6_Witness ==
    \E j \in 1..Len(raw_questions) :
        LET q == raw_questions[j]
            df == datasets[q.dataset]
        IN  /\ Reviewed(j)
            /\ q.template_id = "groupby_mean"
            /\ HasColumn(df, q.column) /\ HasColumn(df, q.other_column)
            /\ NUnique(Col(df, q.column).vals) = 2 /\ NRows(df) = 3
            /\ \E r \in 1..Len(rejected_questions) :
                  /\ rejected_questions[r][1] = q
                  /\ Len(rejected_questions[r][2]) = 1

\* C7: every raw question main has gone through is in exactly one of
\* good_questions and rejected_questions, so that after the loop their lengths
\* sum to the number of raw questions; a question whose code returns an empty
\* frame is not in good_questions
C7_ReviewPartitions ==
    prog = "review" =>
        /\ Len(good_questions) + Len(rejected_questions) = k - 1
        /\ pc \in {"save", "done"} => k - 1 = Len(raw_questions)
        /\ \A j \in 1..(k - 1) :
              LET q == raw_questions[j]
                  res == eval_code(q.template_id, q.column, q.other_column, q.value,
                                   q.num2, datasets[q.dataset])
              IN  /\ InGood(q) # InRejected(q)
                  /\ (Reviewed(j) /\ res.kind = "frame" /\ res.len = 0) => ~InGood(q)

\* C7, its case: main has gone through two raw questions and written its
\* output; one was accepted, the other rejected for its empty result
C7_Witness ==
    /\ prog = "review" /\ pc = "done"
    /\ Len(good_questions) = 1 /\ Len(rejected_questions) = 1
    /\ \E j \in 1..Len(raw_questions) :
          /\ Reviewed(j)
          /\ rejected_questions[1] = <<raw_questions[j], <<"Query returns empty result">> >>

\* C11: a reviewed question whose code gives an empty collection, an empty
\* frame or an empty series, is rejected with the empty-result reason and is
\* not accepted
C11_EmptyCollectionRejected ==
    \A j \in 1..Len(raw_questions) :
        LET q == raw_questions[j]
            res == eval_code(q.template_id, q.column, q.other_column, q.value,
                             q.num2, datasets[q.dataset])
        IN  (Reviewed(j) /\ res.kind \in {"frame", "series"} /\ res.len = 0)
            => /\ ~InGood(q)
               /\ \E r \in 1..Len(rejected_questions) :
                     /\ rejected_questions[r][1] = q
                     /\ \E m \in 1..Len(rejected_questions[r][2]) :
                           rejected_questions[r][2][m] = "Query returns empty result"

\* the reasons evaluate_question gave for rejecting raw question q
Rejected(q, reason) ==
    \E r \in 1..Len(rejected_questions) :
        /\ rejected_questions[r][1] = q
        /\ \E m \in 1..Len(rejected_questions[r][2]) : rejected_questions[r][2][m] = reason

\* first occurs in text and second occurs somewhere after it
Later(first, second, text) ==
    \E a \in 1..Len(text), b \in 1..Len(text) :
        /\ a + Len(first) <= b
        /\ b + Len(second) - 1 <= Len(text)
        /\ SubSeq(text, a, a + Len(first) - 1) = first
        /\ SubSeq(text, b, b + Len(second) - 1) = second

\* C12: a reviewed question whose lower-cased text has "average" with "name"
\* later, "sum" with "category" later, or "total" with "id" later, is rejected
\* with the reason of that pair
C12_SmellTestRejects ==
    \A j \in 1..Len(raw_questions) :
        \A smell \in {<<"average", "name", "Cannot average names">>,
                      <<"sum", "category", "Cannot sum categories">>,
                      <<"total", "id", "Summing IDs is not meaningful">>} :
            LET q == raw_questions[j]
            IN  (Reviewed(j) /\ Later(smell[1], smell[2], Lower(q.question)))
                => ~InGood(q) /\ Rejected(q, smell[3])

\* C13: a reviewed question with a bound column, primary or secondary, whose
\* name contains "id", "code", "number" or "zip" and whose code applies
\* .mean() or .sum() is rejected with the aggregation-over-identifier reason
C13_IdentifierAggregationRejected ==
    \A j \in 1..Len(raw_questions) :
        LET q == raw_questions[j]
            bound == {q.column} \cup (IF q.other_column = "" THEN {} ELSE {q.other_column})
        IN  (/\ Reviewed(j)
             /\ \E col \in bound : \E word \in {"id", "code", "number", "zip"} :
                    Contains(word, Lower(col))
             /\ Contains(".mean()", q.code) \/ Contains(".sum()", q.code))
            => /\ ~InGood(q)
               /\ Rejected(q, "Calculating mean/sum of IDs or codes is not meaningful")

\* the sum of the values of a function with numbers as values
RECURSIVE SumOver(_, _)
SumOver(f, S) ==
    IF S = {} THEN 0
    ELSE LET x == CHOOSE y \in S : TRUE IN f[x] + SumOver(f, S \ {x})

\* the raw questions the review should accept, in the order of the raw bank
ShouldAccept ==
    SelectSeq(raw_questions,
        LAMBDA q : /\ q.status = "valid"
                   /\ q.dataset \in DOMAIN datasets
                   /\ evaluate_question(q, datasets[q.dataset]).reasons = <<>>)

\* C14: the questions array of questions_filtered.json holds, in the order of
\* the raw bank, one record for each valid raw question of a loaded dataset
\* that the evaluation did not reject, and nothing else; totalQuestions is its
\* length and the sum of the per-dataset counts
C14_ArtifactHoldsAccepted ==
    (prog = "review" /\ pc = "done") =>
        LET written == output[1].questions
            meta == output[1].metadata
        IN  /\ Len(written) = Len(ShouldAccept)
            /\ \A j \in 1..Len(written) :
                  /\ written[j].dataset = ShouldAccept[j].dataset
                  /\ written[j].question = ShouldAccept[j].question
                  /\ written[j].canonicalAnswer.code = ShouldAccept[j].code
            /\ meta.totalQuestions = Len(written)
            /\ meta.totalQuestions = SumOver(meta.datasets, DOMAIN meta.datasets)

\* C14, its case: the output is written after a review of two raw questions
\* of one dataset, the first rejected by the evaluation, the second accepted
C14_Witness ==
    /\ prog = "review" /\ pc = "done"
    /\ Len(raw_questions) = 2
    /\ Reviewed(1) /\ InRejected(raw_questions[1])
    /\ Reviewed(2) /\ ~InRejected(raw_questions[2])
    /\ Len(output[1].questions) = 1
    /\ output[1].questions[1].question = raw_questions[2].question

\* C15: a loaded table is never changed: the table the review keeps for a
\* dataset, and evaluates its questions against, has the columns and the
\* cells of the file it was loaded from
C15_TablesReadOnly ==
    prog = "review" =>
        \A name \in DOMAIN datasets :
            /\ Columns(datasets[name]) = Columns(fs[name])
            /\ datasets[name] = fs[name]

\* C21: the evaluation of a reviewed question has makes_sense and
\* is_meaningful both true exactly when its reasons are empty; a question the
\* evaluation does not pass is in rejected_questions with these reasons, at
\* least one, and a question it passes is not in rejected_questions
C21_RejectionCarriesReason ==
    \A j \in 1..Len(raw_questions) :
        Reviewed(j) =>
            \A evaluation \in {evaluate_question(raw_questions[j], datasets[raw_questions[j].dataset])} :
                LET passed == evaluation.makes_sense /\ evaluation.is_meaningful
                IN  /\ passed <=> evaluation.reasons = <<>>
                    /\ passed => ~InRejected(raw_questions[j])
                    /\ ~passed =>
                          /\ Len(evaluation.reasons) >= 1
                          /\ \E r \in 1..Len(rejected_questions) :
                                rejected_questions[r] = <<raw_questions[j], evaluation.reasons>>

\* C21, its case: the review has rejected a question after its evaluation and
\* gone on to the end of the raw bank
C21_Witness ==
    /\ prog = "review" /\ pc \in {"save", "done"}
    /\ \E j \in 1..Len(raw_questions) :
          /\ Reviewed(j)
          /\ InRejected(raw_questions[j])
          /\ ~InGood(raw_questions[j])

\* C22: for every table generate_question_bank.py has gone through that has
\* a column with can_group_by and at least one other column, the output holds
\* a groupby_count question of that dataset on such a column
C22_GroupByCountEmitted ==
    prog = "bank" =>
        \A d \in 1..(i - 1) :
            LET name == datasets_bank[d]
                df == fs[name]
                groupable == {col \in Range(Columns(df)) :
                                Get(analyze_column_bank(df, col), "can_group_by")}
            IN  (df.state = "table" /\ NRows(df) > 0 /\ Len(df.cols) >= 2 /\ groupable # {}) =>
                    \E j \in 1..Len(all_questions) :
                        /\ all_questions[j].dataset = name
                        /\ all_questions[j].template_id = "groupby_count"
                        /\ all_questions[j].column \in groupable

====
